---- MODULE Spec2Model ----
(***************************************************************************)
(* A model of SchemaAgent (src/schema_agent.py): the schema cache with its *)
(* time-to-live, the catalog extraction with its failure paths, the prompt *)
(* renderer, the relevance matcher and the partial renderer; and of the    *)
(* conversation memory and the SQL mode of the page (src/main.py).         *)
(*                                                                         *)
(* Python values are represented as follows.                               *)
(*   str used as an identifier  a sequence of one-character strings, so    *)
(*                              that lower(), `in` and < can be computed   *)
(*   rendered text              a TLA+ string built with \o                *)
(*   Optional[x]                <<>> for None, <<x>> for a present x       *)
(*   dict (insertion ordered)   a sequence of entries with distinct keys   *)
(*   datetime / timedelta       a number of clock ticks (minutes)          *)
(***************************************************************************)
EXTENDS Integers, Sequences, FiniteSets, TLC

VARIABLES
    db,               \* the catalog of the live database (environment)
    now,              \* the wall clock, in ticks
    cache_duration,   \* self.cache_duration, in ticks
    schema_cache,     \* self.schema_cache      (Optional snapshot)
    cache_timestamp,  \* self.cache_timestamp   (Optional tick)
    full_schema_text, \* self.full_schema_text  (Optional text)
    last,             \* what the last completed call did and gave back
    window,           \* history: the last successful extraction and the text
                      \* that get_schema_for_llm first returned after it
    heap,             \* the snapshot dicts ever created, by identity
    cache_ref,        \* the identity of the dict self.schema_cache refers to
    held,             \* the identity of the dict a caller was last handed
    memory,           \* st.session_state.memory
    max_rounds,       \* Config.MAX_MEMORY_ROUNDS
    log,              \* history: every entry add_memory was called with
    run,              \* what the last press of Run did
    pc,               \* per session: its position in a concurrent extraction
    call,             \* per session: the method it is in
    local,            \* per session: its local schema_info
    returned,         \* per session: what its get_schema_for_llm returned
    extracted         \* history: the snapshots of the complete extractions

coreVars == <<db, now, cache_duration, schema_cache, cache_timestamp,
              full_schema_text, last, window>>
heapVars == <<heap, cache_ref, held>>
chatVars == <<memory, max_rounds, log, run>>
raceVars == <<pc, call, local, returned, extracted>>

vars == <<coreVars, heapVars, chatVars, raceVars>>

cacheFields == <<schema_cache, cache_timestamp, full_schema_text>>

-----------------------------------------------------------------------------
(* Bounds of the model.                                                    *)

MaxTime == 1        \* the clock runs from 0 to MaxTime
MaxTTL == 1         \* cache durations 0 .. MaxTTL are configured
MaxQueryLen == 3    \* user queries have at most this many characters
MaxNames == 2       \* table_names lists have at most this many entries
MaxObjects == 2     \* at most this many snapshot dicts are created
MaxRounds == 1      \* MAX_MEMORY_ROUNDS is configured up to this
MaxAdds == 3        \* add_memory is called at most this many times
MaxRawLen == 2      \* a reply of the language model has at most this many tokens

-----------------------------------------------------------------------------
(* Optional values.                                                        *)

None == <<>>
Some(x) == <<x>>
Get(o) == o[1]

-----------------------------------------------------------------------------
(* Strings as character sequences.                                         *)

\* str.lower() on one character
LowerChar(c) ==
    CASE c = "A" -> "a"
      [] c = "B" -> "b"
      [] OTHER -> c

\* str.lower()
Lower(s) == [i \in 1..Len(s) |-> LowerChar(s[i])]

\* the code point of a character, which Python's string order compares
CodePoint(c) ==
    CASE c = "A" -> 65
      [] c = "B" -> 66
      [] c = "a" -> 97
      [] c = "b" -> 98
      [] c = "c" -> 99

\* Python's `needle in hay` on strings
Contains(hay, needle) ==
    \E i \in 0..(Len(hay) - Len(needle)) :
        SubSeq(hay, i + 1, i + Len(needle)) = needle

\* Python's s < t on strings: lexicographic by code point
RECURSIVE StrLess(_, _)
StrLess(s, t) ==
    IF t = <<>> THEN FALSE
    ELSE IF s = <<>> THEN TRUE
    ELSE IF Head(s) = Head(t) THEN StrLess(Tail(s), Tail(t))
    ELSE CodePoint(Head(s)) < CodePoint(Head(t))

\* the text of an identifier
RECURSIVE Text(_)
Text(s) == IF s = <<>> THEN "" ELSE Head(s) \o Text(Tail(s))

\* sep.join(parts) on texts
RECURSIVE Join(_, _)
Join(parts, sep) ==
    IF parts = <<>> THEN ""
    ELSE IF Len(parts) = 1 THEN parts[1]
    ELSE parts[1] \o sep \o Join(Tail(parts), sep)

\* the elements of a sequence
Range(s) == {s[i] : i \in 1..Len(s)}

\* all sequences over S with at most n elements
SeqUpTo(S, n) == UNION {[1..k -> S] : k \in 0..n}

\* the concatenation of a sequence of sequences
RECURSIVE Flatten(_)
Flatten(ss) == IF ss = <<>> THEN <<>> ELSE Head(ss) \o Flatten(Tail(ss))

-----------------------------------------------------------------------------
(* The database: what the catalog queries of an extraction return.  A      *)
(* table is described by the rows of the three per-table queries, a        *)
(* catalog by its tables in the order of the table list query and by the   *)
(* rows of the foreign-key query.                                          *)

ColumnRow(name, data_type, max_length, is_nullable, default) ==
    [column_name |-> name, data_type |-> data_type,
     character_maximum_length |-> max_length,
     is_nullable |-> is_nullable, column_default |-> default]

TableAb ==
    [table_name |-> <<"A", "b">>,
     column_rows |-> <<ColumnRow(<<"a">>, "integer", None, "NO", Some("nextval('ab_seq')")),
                       ColumnRow(<<"b", "c">>, "character varying", Some(255), "YES", None)>>,
     pk_rows |-> << <<"a">> >>,
     index_rows |-> << [indexname |-> "Ab_pkey",
                        indexdef |-> "CREATE UNIQUE INDEX Ab_pkey ON public.Ab USING btree (a)"] >>]

TableBa ==
    [table_name |-> <<"b", "a">>,
     column_rows |-> <<ColumnRow(<<"B", "a">>, "integer", None, "NO", None),
                       ColumnRow(<<"a">>, "integer", None, "YES", None)>>,
     pk_rows |-> << <<"B", "a">> >>,
     index_rows |-> << [indexname |-> "ba_pkey",
                        indexdef |-> "CREATE UNIQUE INDEX ba_pkey ON public.ba USING btree (Ba)"] >>]

TableBc ==
    [table_name |-> <<"B", "c">>,
     column_rows |-> <<ColumnRow(<<"c", "b">>, "numeric", None, "NO", Some("0"))>>,
     pk_rows |-> <<>>,
     index_rows |-> <<>>]

TableDefs == {TableAb, TableBa, TableBc}

FkRow(st, sc, tt, tc, name) ==
    [source_table |-> st, source_column |-> sc,
     target_table |-> tt, target_column |-> tc, constraint_name |-> name]

\* the foreign keys that exist when both of their tables exist
FkDefs ==
    << FkRow(<<"b", "a">>, <<"a">>, <<"A", "b">>, <<"a">>, "ba_a_fkey"),
       FkRow(<<"B", "c">>, <<"c", "b">>, <<"b", "a">>, <<"B", "a">>, "Bc_cb_fkey"),
       FkRow(<<"B", "c">>, <<"c", "b">>, <<"b", "a">>, <<"B", "a">>, "Bc_cb_fkey2"),
       FkRow(<<"A", "b">>, <<"b", "c">>, <<"A", "b">>, <<"a">>, "Ab_bc_fkey") >>

Reverse(s) == [i \in 1..Len(s) |-> s[Len(s) + 1 - i]]

TableNamesOf(tables) == [i \in 1..Len(tables) |-> tables[i].table_name]

\* a catalog: the tables in the order the table list query gives them (the
\* order of the database's collation), the foreign-key rows in either order
\* (the query has no ORDER BY)
MkCatalog(tables, reversed) ==
    LET names == Range(TableNamesOf(tables))
        fks == SelectSeq(FkDefs, LAMBDA fk : fk.source_table \in names
                                             /\ fk.target_table \in names)
    IN [tables |-> tables,
        fk_rows |-> IF reversed THEN Reverse(fks) ELSE fks]

DistinctSeqs(S) ==
    {s \in SeqUpTo(S, Cardinality(S)) : \A i, j \in 1..Len(s) : i # j => s[i] # s[j]}

Catalogs == {MkCatalog(ts, r) : ts \in DistinctSeqs(TableDefs), r \in BOOLEAN}

\* the catalogs the database moves between in the life-cycle specification
DbVersions ==
    { MkCatalog(<<TableAb>>, FALSE),
      MkCatalog(<<TableBa, TableAb>>, FALSE) }

-----------------------------------------------------------------------------
(* Catalog Reader.                                                         *)

\* datetime.isoformat()
IsoFormat(t) == "2024-01-01T00:0" \o ToString(t) \o ":00"

_extract_table_info(table) ==
    [columns |->
        [i \in 1..Len(table.column_rows) |->
            LET row == table.column_rows[i]
                type_str ==
                    IF row.character_maximum_length # None
                    THEN row.data_type \o "("
                         \o ToString(Get(row.character_maximum_length)) \o ")"
                    ELSE row.data_type
            IN [name |-> row.column_name,
                type |-> type_str,
                nullable |-> (row.is_nullable = "YES"),
                default |-> row.column_default]],
     primary_keys |-> table.pk_rows,
     indexes |->
        [i \in 1..Len(table.index_rows) |->
            [name |-> table.index_rows[i].indexname,
             definition |-> table.index_rows[i].indexdef]]]

_extract_foreign_keys(catalog) ==
    [i \in 1..Len(catalog.fk_rows) |->
        [source_table |-> catalog.fk_rows[i].source_table,
         source_column |-> catalog.fk_rows[i].source_column,
         target_table |-> catalog.fk_rows[i].target_table,
         target_column |-> catalog.fk_rows[i].target_column,
         constraint_name |-> catalog.fk_rows[i].constraint_name]]

\* schema_info['tables'] after the first m tables were read: a dict, that is
\* a sequence of entries in insertion order
TablesDict(catalog, m) ==
    [i \in 1..m |-> [name |-> catalog.tables[i].table_name,
                     info |-> _extract_table_info(catalog.tables[i])]]

\* the catalog queries of one extraction: the table list, three per table,
\* the foreign keys
NumQueries(catalog) == 3 * Len(catalog.tables) + 2

\* the tables whose three queries all ran before query number k
TablesReadBefore(catalog, k) ==
    IF k <= 1 THEN 0
    ELSE IF (k - 2) \div 3 < Len(catalog.tables) THEN (k - 2) \div 3
    ELSE Len(catalog.tables)

\* schema_info when every query succeeded
FullSchemaInfo(catalog, t) ==
    [tables |-> TablesDict(catalog, Len(catalog.tables)),
     foreign_keys |-> _extract_foreign_keys(catalog),
     extracted_at |-> IsoFormat(t)]

\* schema_info at the moment query number k raised
PartialSchemaInfo(catalog, t, k) ==
    [tables |-> TablesDict(catalog, TablesReadBefore(catalog, k)),
     foreign_keys |-> <<>>,
     extracted_at |-> IsoFormat(t)]

-----------------------------------------------------------------------------
(* Prompt Renderer.                                                        *)

DictKeys(d) == [i \in 1..Len(d) |-> d[i].name]

\* mutant of SortedItems: the entries are left in storage order
UnsortedItems(d) == d

\* sorted(d.items()): the entries in increasing order of key
RECURSIVE SortedItems(_)
SortedItems(d) ==
    IF d = <<>> THEN <<>>
    ELSE LET i == CHOOSE i \in 1..Len(d) :
                      \A j \in 1..Len(d) : j # i => StrLess(d[i].name, d[j].name)
             rest == [j \in 1..(Len(d) - 1) |-> IF j < i THEN d[j] ELSE d[j + 1]]
         IN <<d[i]>> \o SortedItems(rest)

TableHeaderLine(entry) ==
    LET pk_cols == entry.info.primary_keys
        pk_str == IF pk_cols # <<>>
                  THEN " [PK: "
                       \o Join([i \in 1..Len(pk_cols) |-> Text(pk_cols[i])], ", ")
                       \o "]"
                  ELSE ""
    IN "\n" \o Text(entry.name) \o pk_str \o ":"

ColumnLine(col, pk_cols) ==
    LET nullable == IF col.nullable THEN "" ELSE " NOT NULL"
        default == IF col.default # None
                   THEN " DEFAULT " \o Get(col.default) ELSE ""
        pk_marker == IF col.name \in Range(pk_cols) THEN " (PK)" ELSE ""
    IN "  - " \o Text(col.name) \o ": " \o col.type
       \o nullable \o default \o pk_marker

TableBlock(entry) ==
    <<TableHeaderLine(entry)>>
    \o [i \in 1..Len(entry.info.columns) |->
            ColumnLine(entry.info.columns[i], entry.info.primary_keys)]

FkLine(fk) ==
    Text(fk.source_table) \o "." \o Text(fk.source_column) \o " -> "
    \o Text(fk.target_table) \o "." \o Text(fk.target_column)

\* mutant of FkSection: the section header is written without edges too
FkSectionAlways(foreign_keys) ==
    <<"\n=== FOREIGN KEY RELATIONSHIPS ===">>
    \o [i \in 1..Len(foreign_keys) |-> FkLine(foreign_keys[i])]

FkSection(foreign_keys) ==
    IF foreign_keys # <<>>
    THEN <<"\n=== FOREIGN KEY RELATIONSHIPS ===">>
         \o [i \in 1..Len(foreign_keys) |-> FkLine(foreign_keys[i])]
    ELSE <<>>

\* the list `lines` of _generate_llm_schema_text
SchemaLines(schema_info) ==
    LET items == SortedItems(schema_info.tables)
    IN <<"=== DATABASE SCHEMA ===\n">>
       \o Flatten([i \in 1..Len(items) |-> TableBlock(items[i])])
       \o FkSection(schema_info.foreign_keys)
       \o <<"\n=== METADATA ===",
            "Total Tables: " \o ToString(Len(schema_info.tables)),
            "Extracted At: " \o schema_info.extracted_at>>

_generate_llm_schema_text(schema_info) == Join(SchemaLines(schema_info), "\n")

-----------------------------------------------------------------------------
(* SchemaAgent.  A method is an operator from the agent's fields, its      *)
(* arguments and the environment (catalog, clock, where the database or    *)
(* the driver fails) to the fields after the call and what the call did.   *)

\* the fields of a SchemaAgent
Agent(cache, timestamp, text) ==
    [schema_cache |-> cache, cache_timestamp |-> timestamp, full_schema_text |-> text]

\* where a call fails: in _connect, in conn.cursor(), in catalog query
\* number k, in the renderer, or nowhere; and whether cur.close() raises
NoFail == [at |-> "none", k |-> 0, cur_close |-> FALSE]

FailPoints(catalog) ==
    [at : {"none", "render"}, k : {0}, cur_close : BOOLEAN]
    \cup [at : {"connect", "cursor"}, k : {0}, cur_close : {FALSE}]
    \cup [at : {"query"}, k : 1..NumQueries(catalog), cur_close : {FALSE}]
    \cup [at : {"query"}, k : {NumQueries(catalog)}, cur_close : {TRUE}]

\* what a call did: the fields after it, whether it returned or raised, the
\* value returned, the connections opened, the catalog queries issued, the
\* state of the opened connection at exit, and the tables already read
Done(self, outcome, error, ret, connects, queries, conn, tables_read) ==
    [self |-> self, outcome |-> outcome, error |-> error, ret |-> ret,
     connects |-> connects, queries |-> queries, conn |-> conn,
     tables_read |-> tables_read]

\* mutants of _is_cache_valid: <= for <, and > for <
is_cache_valid_inclusive(self, t, ttl) ==
    IF self.schema_cache = None \/ self.cache_timestamp = None
    THEN FALSE
    ELSE t - Get(self.cache_timestamp) <= ttl

is_cache_valid_inverted(self, t, ttl) ==
    IF self.schema_cache = None \/ self.cache_timestamp = None
    THEN FALSE
    ELSE t - Get(self.cache_timestamp) > ttl

_is_cache_valid(self, t, ttl) ==
    IF self.schema_cache = None \/ self.cache_timestamp = None
    THEN FALSE
    ELSE t - Get(self.cache_timestamp) < ttl

\* the finally block: cur.close() then conn.close()
ConnAfterFinally(fail) == IF fail.cur_close THEN "open" ELSE "closed"

\* mutant of CacheAfterTry: schema_info is installed before it is filled
CacheAfterTryEager(self, schema_info, t, fail) ==
    CASE fail.at = "query" ->
            Agent(Some(schema_info), self.cache_timestamp, self.full_schema_text)
      [] fail.at = "render" ->
            Agent(Some(schema_info), Some(t), self.full_schema_text)
      [] OTHER ->
            Agent(Some(schema_info), Some(t),
                  Some(_generate_llm_schema_text(schema_info)))

\* the fields when the try block is left: after a query raised, after the
\* renderer raised, or at its end
CacheAfterTry(self, schema_info, t, fail) ==
    CASE fail.at = "query" -> self
      [] fail.at = "render" ->
            Agent(Some(schema_info), Some(t), self.full_schema_text)
      [] OTHER ->
            Agent(Some(schema_info), Some(t),
                  Some(_generate_llm_schema_text(schema_info)))

\* mutants of UseCache: the `not` is missing, and force_refresh is ignored
UseCacheMissingNot(self, force_refresh, t, ttl) ==
    force_refresh /\ _is_cache_valid(self, t, ttl)

UseCacheIgnoringForce(self, force_refresh, t, ttl) ==
    _is_cache_valid(self, t, ttl)

\* `if not force_refresh and self._is_cache_valid()`
UseCache(self, force_refresh, t, ttl) ==
    ~force_refresh /\ _is_cache_valid(self, t, ttl)

extract_full_schema(self, force_refresh, catalog, t, ttl, fail) ==
    IF UseCache(self, force_refresh, t, ttl)
    THEN Done(self, "return", "none", Some(Get(self.schema_cache)), 0, 0, "none", 0)
    ELSE IF fail.at = "connect"
    THEN Done(self, "raise", "connect", None, 0, 0, "none", 0)
    ELSE IF fail.at = "cursor"
    THEN Done(self, "raise", "cursor", None, 1, 0, "open", 0)
    ELSE
        LET schema_info ==
                IF fail.at = "query" THEN PartialSchemaInfo(catalog, t, fail.k)
                ELSE FullSchemaInfo(catalog, t)
            queries == IF fail.at = "query" THEN fail.k ELSE NumQueries(catalog)
            after == CacheAfterTry(self, schema_info, t, fail)
            raised == fail.at # "none" \/ fail.cur_close
            error == IF fail.cur_close THEN "cur_close" ELSE fail.at
        IN Done(after,
                IF raised THEN "raise" ELSE "return",
                error,
                IF raised THEN None ELSE Some(schema_info),
                1, queries, ConnAfterFinally(fail),
                Len(schema_info.tables))

\* bool(self.full_schema_text)
TextTruthy(text) == text # None /\ Get(text) # ""

get_schema_for_llm(self, force_refresh, catalog, t, ttl, fail) ==
    IF ~force_refresh /\ TextTruthy(self.full_schema_text)
       /\ _is_cache_valid(self, t, ttl)
    THEN Done(self, "return", "none", Some(self.full_schema_text), 0, 0, "none", 0)
    ELSE
        LET r == extract_full_schema(self, force_refresh, catalog, t, ttl, fail)
        IN IF r.outcome = "raise" THEN r
           ELSE [r EXCEPT !.ret = Some(r.self.full_schema_text)]

\* `if not self.schema_cache: self.extract_full_schema()`, the first
\* statement of the three read methods below
EnsureSchema(self, catalog, t, ttl, fail) ==
    IF self.schema_cache = None
    THEN extract_full_schema(self, FALSE, catalog, t, ttl, fail)
    ELSE Done(self, "return", "none", None, 0, 0, "none", 0)

\* mutant of TableMatches: the identifiers are not lower-cased
TableMatchesCaseSensitive(entry, query_lower) ==
    \/ Contains(query_lower, entry.name)
    \/ \E i \in 1..Len(entry.info.columns) :
           Contains(query_lower, entry.info.columns[i].name)

\* whether a table of the cached schema matches the lower-cased query
TableMatches(entry, query_lower) ==
    \/ Contains(query_lower, Lower(entry.name))
    \/ \E i \in 1..Len(entry.info.columns) :
           Contains(query_lower, Lower(entry.info.columns[i].name))

\* mutant of RelevantTables: the loop has neither `continue` nor `break`, so
\* a table is appended for its name and for each of its matching columns
RelevantTablesNoBreak(schema, query) ==
    LET query_lower == Lower(query)
        Appended(e) ==
            (IF Contains(query_lower, Lower(e.name)) THEN <<e.name>> ELSE <<>>)
            \o Flatten([i \in 1..Len(e.info.columns) |->
                          IF Contains(query_lower, Lower(e.info.columns[i].name))
                          THEN <<e.name>> ELSE <<>>])
        relevant_tables ==
            Flatten([i \in 1..Len(schema.tables) |-> Appended(schema.tables[i])])
    IN IF relevant_tables # <<>> THEN relevant_tables
       ELSE DictKeys(schema.tables)

RelevantTables(schema, query) ==
    LET query_lower == Lower(query)
        relevant_tables ==
            DictKeys(SelectSeq(schema.tables,
                               LAMBDA e : TableMatches(e, query_lower)))
    IN IF relevant_tables # <<>> THEN relevant_tables
       ELSE DictKeys(schema.tables)

get_relevant_tables(self, query, catalog, t, ttl, fail) ==
    LET r == EnsureSchema(self, catalog, t, ttl, fail)
    IN IF r.outcome = "raise" THEN r
       ELSE [r EXCEPT !.ret =
                Some(RelevantTables(Get(r.self.schema_cache), query))]

\* the dict comprehension of get_partial_schema: one entry per name of
\* table_names that is a key of the cached tables, in the order of the first
\* occurrence of the name in table_names
RECURSIVE FilterTables(_, _, _)
FilterTables(tables, table_names, seen) ==
    IF table_names = <<>> THEN <<>>
    ELSE LET name == Head(table_names)
             hit == SelectSeq(tables, LAMBDA e : e.name = name)
         IN (IF name \in seen THEN <<>> ELSE hit)
            \o FilterTables(tables, Tail(table_names), seen \cup {name})

\* mutant of FilteredSchema: `and` for `or` in the foreign-key filter
FilteredSchemaBothEnds(schema, table_names) ==
    [tables |-> FilterTables(schema.tables, table_names, {}),
     foreign_keys |->
        SelectSeq(schema.foreign_keys,
                  LAMBDA fk : /\ fk.source_table \in Range(table_names)
                              /\ fk.target_table \in Range(table_names)),
     extracted_at |-> schema.extracted_at]

FilteredSchema(schema, table_names) ==
    [tables |-> FilterTables(schema.tables, table_names, {}),
     foreign_keys |->
        SelectSeq(schema.foreign_keys,
                  LAMBDA fk : \/ fk.source_table \in Range(table_names)
                              \/ fk.target_table \in Range(table_names)),
     extracted_at |-> schema.extracted_at]

get_partial_schema(self, table_names, catalog, t, ttl, fail) ==
    LET r == EnsureSchema(self, catalog, t, ttl, fail)
    IN IF r.outcome = "raise" THEN r
       ELSE [r EXCEPT !.ret =
                Some(_generate_llm_schema_text(
                        FilteredSchema(Get(r.self.schema_cache), table_names)))]

\* A JSON document is a tree of tagged values; an object keeps its members
\* in the order they were written.
JNull == [t |-> "null"]
JBool(b) == [t |-> "bool", v |-> b]
JStr(s) == [t |-> "string", v |-> s]
JArr(items) == [t |-> "array", items |-> items]
JObj(members) == [t |-> "object", members |-> members]
Member(k, v) == [k |-> k, v |-> v]

\* mutant of JsonOptional: None is written as the text of str(None)
JsonOptionalAsText(o) == IF o = None THEN JStr("None") ELSE JStr(Get(o))

\* json.dump of an Optional[str]: None becomes null
JsonOptional(o) == IF o = None THEN JNull ELSE JStr(Get(o))

JsonOfColumn(col) ==
    JObj(<< Member("name", JStr(col.name)),
            Member("type", JStr(col.type)),
            Member("nullable", JBool(col.nullable)),
            Member("default", JsonOptional(col.default)) >>)

JsonOfTable(info) ==
    JObj(<< Member("columns",
                   JArr([i \in 1..Len(info.columns) |-> JsonOfColumn(info.columns[i])])),
            Member("primary_keys",
                   JArr([i \in 1..Len(info.primary_keys) |-> JStr(info.primary_keys[i])])),
            Member("indexes",
                   JArr([i \in 1..Len(info.indexes) |->
                           JObj(<< Member("name", JStr(info.indexes[i].name)),
                                   Member("definition",
                                          JStr(info.indexes[i].definition)) >>)])) >>)

JsonOfForeignKey(fk) ==
    JObj(<< Member("source_table", JStr(fk.source_table)),
            Member("source_column", JStr(fk.source_column)),
            Member("target_table", JStr(fk.target_table)),
            Member("target_column", JStr(fk.target_column)),
            Member("constraint_name", JStr(fk.constraint_name)) >>)

\* json.dump(self.schema_cache, f, indent=2): the document written
json_dump(schema) ==
    JObj(<< Member("tables",
                   JObj([i \in 1..Len(schema.tables) |->
                           Member(schema.tables[i].name,
                                  JsonOfTable(schema.tables[i].info))])),
            Member("foreign_keys",
                   JArr([i \in 1..Len(schema.foreign_keys) |->
                           JsonOfForeignKey(schema.foreign_keys[i])])),
            Member("extracted_at", JStr(schema.extracted_at)) >>)

\* the value of obj[key] in a loaded object
Field(obj, key) ==
    LET i == CHOOSE j \in 1..Len(obj.members) : obj.members[j].k = key
    IN obj.members[i].v

\* json.load of a string or null
PyOptional(v) == IF v.t = "null" THEN None ELSE Some(v.v)

\* json.load of a document of the shape of a snapshot: objects become
\* dicts in the order of the document, arrays lists, null None
json_load(doc) ==
    LET tables == Field(doc, "tables").members
        fks == Field(doc, "foreign_keys").items
        TableOf(obj) ==
            LET cols == Field(obj, "columns").items
                pks == Field(obj, "primary_keys").items
                idx == Field(obj, "indexes").items
            IN [columns |->
                    [i \in 1..Len(cols) |->
                        [name |-> Field(cols[i], "name").v,
                         type |-> Field(cols[i], "type").v,
                         nullable |-> Field(cols[i], "nullable").v,
                         default |-> PyOptional(Field(cols[i], "default"))]],
                primary_keys |-> [i \in 1..Len(pks) |-> pks[i].v],
                indexes |->
                    [i \in 1..Len(idx) |->
                        [name |-> Field(idx[i], "name").v,
                         definition |-> Field(idx[i], "definition").v]]]
    IN [tables |-> [i \in 1..Len(tables) |->
                        [name |-> tables[i].k, info |-> TableOf(tables[i].v)]],
        foreign_keys |->
            [i \in 1..Len(fks) |->
                [source_table |-> Field(fks[i], "source_table").v,
                 source_column |-> Field(fks[i], "source_column").v,
                 target_table |-> Field(fks[i], "target_table").v,
                 target_column |-> Field(fks[i], "target_column").v,
                 constraint_name |-> Field(fks[i], "constraint_name").v]],
        extracted_at |-> Field(doc, "extracted_at").v]

\* the result is the document written to filepath
save_schema_to_file(self, catalog, t, ttl, fail) ==
    LET r == EnsureSchema(self, catalog, t, ttl, fail)
    IN IF r.outcome = "raise" THEN r
       ELSE [r EXCEPT !.ret = Some(json_dump(Get(r.self.schema_cache)))]

SampleQuery(table_name) == "SELECT * FROM " \o Text(table_name) \o " LIMIT %s;"

get_table_sample_data(self, table_name, fail) ==
    IF fail.at = "connect"
    THEN Done(self, "raise", "connect", None, 0, 0, "none", 0)
    ELSE IF fail.at = "cursor"
    THEN Done(self, "raise", "cursor", None, 1, 0, "open", 0)
    ELSE
        LET raised == fail.at = "query" \/ fail.cur_close
            error == IF fail.cur_close THEN "cur_close" ELSE fail.at
        IN Done(self, IF raised THEN "raise" ELSE "return", error,
                IF raised THEN None ELSE Some("rows"),
                1, 1, ConnAfterFinally(fail), 0)

\* mutant of clear_cache: the rendered text is kept
clear_cache_keeps_text(self) == Agent(None, None, self.full_schema_text)

clear_cache(self) == Agent(None, None, None)

-----------------------------------------------------------------------------
(* The arguments the calls are made with.                                  *)

QueryAlphabet == {"a", "B", "c"}
Queries == SeqUpTo(QueryAlphabet, MaxQueryLen)

NamePool == {TableAb.table_name, TableBa.table_name, TableBc.table_name, <<"c">>}
NameLists == SeqUpTo(NamePool, MaxNames)

\* the arguments used in the life-cycle specification
LifeQueries == { <<"B", "a">> }
LifeNameLists == { <<TableBa.table_name, <<"c">> >> }

\* the failure points of get_table_sample_data: it issues one query
SampleFailPoints ==
    [at : {"none", "query"}, k : {0}, cur_close : BOOLEAN]
    \cup [at : {"connect", "cursor"}, k : {0}, cur_close : {FALSE}]

-----------------------------------------------------------------------------
(* The state machine.                                                      *)

Self == Agent(schema_cache, cache_timestamp, full_schema_text)

\* history: the cache as the call found it
CacheStatus ==
    IF schema_cache = None \/ cache_timestamp = None THEN "absent"
    ELSE IF now - Get(cache_timestamp) < cache_duration THEN "valid"
    ELSE "expired"

\* the record of a call; before and after_clear are history: the cache as
\* the call found it, and whether the call before it was clear_cache
Record(op, arg, before, after_clear, r) ==
    [op |-> op, arg |-> arg, before |-> before, after_clear |-> after_clear,
     outcome |-> r.outcome, error |-> r.error,
     ret |-> r.ret, connects |-> r.connects, queries |-> r.queries,
     conn |-> r.conn, tables_read |-> r.tables_read]

\* the history variable after a call of the agent: a clear_cache or a forced
\* refresh ends the window, an extraction that returns starts one, and the
\* first text get_schema_for_llm returns in a window is remembered
WindowAfter(op, force, r) ==
    LET base == IF op = "clear_cache" \/ force THEN None ELSE window
    IN IF r.connects = 1 /\ r.outcome = "return"
       THEN Some([since |-> now,
                  first |-> IF op = "get_schema_for_llm"
                            THEN Some(Get(r.ret)) ELSE None])
       ELSE IF /\ op = "get_schema_for_llm" /\ r.outcome = "return"
               /\ base # None /\ Get(base).first = None
       THEN Some([Get(base) EXCEPT !.first = Some(Get(r.ret))])
       ELSE base

CommitCore(op, arg, force, r) ==
    /\ schema_cache' = r.self.schema_cache
    /\ cache_timestamp' = r.self.cache_timestamp
    /\ full_schema_text' = r.self.full_schema_text
    /\ last' = Record(op, arg, CacheStatus, last.op = "clear_cache", r)
    /\ window' = WindowAfter(op, force, r)
    /\ UNCHANGED <<db, now, cache_duration>>

Commit(op, arg, force, r) ==
    /\ CommitCore(op, arg, force, r)
    /\ UNCHANGED <<heapVars, chatVars, raceVars>>

\* the sessions of the page that share the agent
Sessions == {1, 2}

\* the parts of the state a specification does not use
IdleHeap == heap = <<>> /\ cache_ref = None /\ held = None
IdleChat ==
    /\ memory = <<>> /\ max_rounds = 0 /\ log = <<>>
    /\ run = [raw |-> None, sql |-> None, executed |-> <<>>, conn |-> "none",
              outcome |-> "none"]
IdleRace ==
    /\ pc = [s \in Sessions |-> "idle"]
    /\ call = [s \in Sessions |-> "none"]
    /\ local = [s \in Sessions |-> None]
    /\ returned = [s \in Sessions |-> None]
    /\ extracted = {}

Init ==
    /\ IdleHeap /\ IdleChat /\ IdleRace
    /\ db \in DbVersions
    /\ now = 0
    /\ cache_duration \in 0..MaxTTL
    /\ schema_cache = None
    /\ cache_timestamp = None
    /\ full_schema_text = None
    /\ last = Record("init", FALSE, "absent", FALSE,
                     Done(Agent(None, None, None), "return", "none", None, 0, 0, "none", 0))
    /\ window = None

ExtractFullSchema(force_refresh, fail) ==
    Commit("extract_full_schema", force_refresh, force_refresh,
           extract_full_schema(Self, force_refresh, db, now, cache_duration, fail))

GetSchemaForLLM(force_refresh, fail) ==
    Commit("get_schema_for_llm", force_refresh, force_refresh,
           get_schema_for_llm(Self, force_refresh, db, now, cache_duration, fail))

GetRelevantTables(query, fail) ==
    Commit("get_relevant_tables", query, FALSE,
           get_relevant_tables(Self, query, db, now, cache_duration, fail))

GetPartialSchema(table_names, fail) ==
    Commit("get_partial_schema", table_names, FALSE,
           get_partial_schema(Self, table_names, db, now, cache_duration, fail))

SaveSchemaToFile(fail) ==
    Commit("save_schema_to_file", FALSE, FALSE,
           save_schema_to_file(Self, db, now, cache_duration, fail))

GetTableSampleData(table_name, fail) ==
    /\ last' = Record("get_table_sample_data", table_name, CacheStatus,
                      last.op = "clear_cache",
                      get_table_sample_data(Self, table_name, fail))
    /\ UNCHANGED <<db, now, cache_duration, cacheFields, window>>
    /\ UNCHANGED <<heapVars, chatVars, raceVars>>

ClearCache ==
    Commit("clear_cache", FALSE, FALSE,
           Done(clear_cache(Self), "return", "none", None, 0, 0, "none", 0))

\* the environment: time passes
Tick ==
    /\ now < MaxTime
    /\ now' = now + 1
    /\ UNCHANGED <<db, cache_duration, cacheFields, last, window>>
    /\ UNCHANGED <<heapVars, chatVars, raceVars>>

\* the environment: the schema of the database is altered
AlterDatabase ==
    /\ \E c \in DbVersions \ {db} : db' = c
    /\ UNCHANGED <<now, cache_duration, cacheFields, last, window>>
    /\ UNCHANGED <<heapVars, chatVars, raceVars>>

\* the failure points that matter to a call: those of an extraction when the
\* call runs one, none otherwise
FailsFor(extracts) == IF extracts THEN FailPoints(db) ELSE {NoFail}

Next ==
    \/ \E force \in BOOLEAN :
         \E fail \in FailsFor(force \/ CacheStatus # "valid") :
            ExtractFullSchema(force, fail)
    \/ \E force \in BOOLEAN :
         \E fail \in FailsFor(force \/ CacheStatus # "valid") :
            GetSchemaForLLM(force, fail)
    \/ \E query \in LifeQueries, fail \in FailsFor(schema_cache = None) :
            GetRelevantTables(query, fail)
    \/ \E names \in LifeNameLists, fail \in FailsFor(schema_cache = None) :
            GetPartialSchema(names, fail)
    \/ \E fail \in FailsFor(schema_cache = None) : SaveSchemaToFile(fail)
    \/ ClearCache
    \/ Tick
    \/ AlterDatabase

Spec == Init /\ [][Next]_vars

-----------------------------------------------------------------------------
(* The relevance matcher, the partial renderer and the sampling helper on  *)
(* every catalog: the agent holds the snapshot of a first extraction and   *)
(* is asked about every query, every list of names and every name.  The    *)
(* sampling helper reads and writes no field of the agent, so the          *)
(* life-cycle specification leaves it out.                                 *)

InitQuery ==
    /\ IdleHeap /\ IdleChat /\ IdleRace
    /\ db \in Catalogs
    /\ now = 0
    /\ cache_duration = MaxTTL
    /\ LET r == extract_full_schema(Agent(None, None, None), FALSE, db, now,
                                    cache_duration, NoFail)
       IN /\ schema_cache = r.self.schema_cache
          /\ cache_timestamp = r.self.cache_timestamp
          /\ full_schema_text = r.self.full_schema_text
          /\ last = Record("extract_full_schema", FALSE, "absent", FALSE, r)
          /\ window = Some([since |-> now, first |-> None])

NextQuery ==
    \/ \E query \in Queries : GetRelevantTables(query, NoFail)
    \/ \E names \in NameLists : GetPartialSchema(names, NoFail)
    \/ \E name \in NamePool, fail \in SampleFailPoints :
            GetTableSampleData(name, fail)

SpecQuery == InitQuery /\ [][NextQuery]_vars

-----------------------------------------------------------------------------
(* The snapshot dicts as objects: schema_info is a new dict in every       *)
(* extraction, self.schema_cache is a reference to it, and so is the value *)
(* extract_full_schema returns to its caller.                              *)

\* mutant of InstallSnapshot: the installed dict is overwritten in place
InstallSnapshotInPlace(objects, ref, schema_info) ==
    IF ref = None
    THEN [heap |-> Append(objects, schema_info), ref |-> Some(Len(objects) + 1)]
    ELSE [heap |-> [objects EXCEPT ![Get(ref)] = schema_info], ref |-> ref]

\* `schema_info = {...}` ... `self.schema_cache = schema_info`: a new dict
\* is created and the field refers to it
InstallSnapshot(objects, ref, schema_info) ==
    [heap |-> Append(objects, schema_info), ref |-> Some(Len(objects) + 1)]

\* an extraction that runs reaches the assignment of self.schema_cache
\* unless the connection, the cursor or a catalog query failed
ReachesInstall(runs, fail) == runs /\ fail.at \in {"none", "render"}

HeapCommit(op, arg, force, r, installs, hands_out) ==
    /\ CommitCore(op, arg, force, r)
    /\ IF installs
       THEN /\ Len(heap) < MaxObjects
            /\ LET i == InstallSnapshot(heap, cache_ref, Get(r.self.schema_cache))
               IN heap' = i.heap /\ cache_ref' = i.ref
       ELSE /\ heap' = heap
            /\ cache_ref' = IF r.self.schema_cache = None THEN None ELSE cache_ref
    /\ held' = IF hands_out /\ r.outcome = "return" THEN cache_ref' ELSE held
    /\ UNCHANGED <<chatVars, raceVars>>

HeapFailPoints ==
    {NoFail, [at |-> "render", k |-> 0, cur_close |-> FALSE],
     [at |-> "query", k |-> 1, cur_close |-> FALSE]}

HeapFailsFor(runs) == IF runs THEN HeapFailPoints ELSE {NoFail}

HeapExtractFullSchema(force_refresh, fail) ==
    HeapCommit("extract_full_schema", force_refresh, force_refresh,
               extract_full_schema(Self, force_refresh, db, now, cache_duration, fail),
               ReachesInstall(~UseCache(Self, force_refresh, now, cache_duration), fail),
               TRUE)

HeapGetSchemaForLLM(force_refresh, fail) ==
    HeapCommit("get_schema_for_llm", force_refresh, force_refresh,
               get_schema_for_llm(Self, force_refresh, db, now, cache_duration, fail),
               ReachesInstall(~UseCache(Self, force_refresh, now, cache_duration), fail),
               FALSE)

HeapGetPartialSchema(table_names, fail) ==
    HeapCommit("get_partial_schema", table_names, FALSE,
               get_partial_schema(Self, table_names, db, now, cache_duration, fail),
               ReachesInstall(schema_cache = None, fail), FALSE)

HeapClearCache ==
    HeapCommit("clear_cache", FALSE, FALSE,
               Done(clear_cache(Self), "return", "none", None, 0, 0, "none", 0),
               FALSE, FALSE)

NextHeap ==
    \/ \E force \in BOOLEAN :
         \E fail \in HeapFailsFor(~UseCache(Self, force, now, cache_duration)) :
            HeapExtractFullSchema(force, fail)
    \/ \E force \in BOOLEAN :
         \E fail \in HeapFailsFor(~UseCache(Self, force, now, cache_duration)) :
            HeapGetSchemaForLLM(force, fail)
    \/ \E names \in LifeNameLists, fail \in HeapFailsFor(schema_cache = None) :
            HeapGetPartialSchema(names, fail)
    \/ HeapClearCache
    \/ Tick
    \/ AlterDatabase

\* a new agent with the longest time-to-live, and no dict created yet
InitHeap == Init /\ cache_duration = MaxTTL

SpecHeap == InitHeap /\ [][NextHeap]_vars

-----------------------------------------------------------------------------
(* The page (src/main.py): the conversation memory and the SQL mode of the *)
(* Run button.  A text of the language model is a sequence of tokens: the  *)
(* two mode markers, a blank, and words.                                   *)

MarkSql == "MODE: SQL"
MarkChat == "MODE: CHAT"
RawAlphabet == {MarkSql, MarkChat, " ", "select", "SELECT", "DROP"}

\* str.strip()
RECURSIVE Strip(_)
Strip(text) ==
    IF text = <<>> THEN text
    ELSE IF Head(text) = " " THEN Strip(Tail(text))
    ELSE IF text[Len(text)] = " " THEN Strip(SubSeq(text, 1, Len(text) - 1))
    ELSE text

\* str.upper()
Upper(text) ==
    [i \in 1..Len(text) |-> IF text[i] = "select" THEN "SELECT" ELSE text[i]]

\* str.startswith(prefix)
StartsWith(text, prefix) ==
    Len(text) >= Len(prefix) /\ SubSeq(text, 1, Len(prefix)) = prefix

\* text.split(sep)[-1]: what follows the last occurrence of sep
AfterLast(text, sep) ==
    LET at == {i \in 1..Len(text) : text[i] = sep}
    IN IF at = {} THEN text
       ELSE SubSeq(text, (CHOOSE i \in at : \A j \in at : j <= i) + 1, Len(text))

\* safe_text(resp): None without content, else resp.text.strip()
safe_text(reply) == IF reply = None THEN None ELSE Some(Strip(Get(reply)))

\* lst[start:]
PySliceFrom(lst, start) ==
    LET n == Len(lst)
        first == IF start < 0 THEN (IF n + start > 0 THEN n + start ELSE 0)
                 ELSE (IF start < n THEN start ELSE n)
    IN SubSeq(lst, first + 1, n)

MemoryEntry(user, mode, content) ==
    [user |-> user, mode |-> mode, content |-> content]

\* the memory after add_memory(user, mode, content)
add_memory(mem, rounds, user, mode, content) ==
    PySliceFrom(Append(mem, MemoryEntry(user, mode, content)), 0 - rounds)

\* mutant of IsSelect: the `not` of the check is missing
IsSelectInverted(sql_query) ==
    ~StartsWith(Upper(Strip(sql_query)), <<"SELECT">>)

\* sql_query.strip().upper().startswith("SELECT")
IsSelect(sql_query) ==
    StartsWith(Upper(Strip(sql_query)), <<"SELECT">>)

SetTimeout == <<"SET statement_timeout = 30000;">>

\* where the SQL mode fails: connect_db(), conn.cursor(), the SET, the
\* query (all psycopg2.Error), the handling of the rows, or nowhere
SqlFailPoints == {"none", "connect", "cursor", "timeout", "execute", "other"}

RunDone(mem, raw, sql, executed, conn, outcome) ==
    [memory |-> mem,
     run |-> [raw |-> raw, sql |-> sql, executed |-> executed, conn |-> conn,
              outcome |-> outcome]]

\* the SQL branch of the Run button; st.stop() raises past both except
\* clauses, the finally clause closes the cursor and the connection
run_sql(mem, rounds, user, raw, fail) ==
    LET sql_query == Strip(AfterLast(raw, MarkSql))
        Stopped(mode, content, executed, conn) ==
            RunDone(add_memory(mem, rounds, user, mode, content),
                    Some(raw), Some(sql_query), executed, conn, "stop")
    IN IF fail = "connect"
       THEN Stopped("SQL_ERROR", "database error", <<>>, "none")
       ELSE IF fail = "cursor"
       THEN Stopped("SQL_ERROR", "database error", <<>>, "closed")
       ELSE IF ~IsSelect(sql_query)
       THEN Stopped("SQL_ERROR", "Non-SELECT query blocked", <<>>, "closed")
       ELSE IF fail = "timeout"
       THEN Stopped("SQL_ERROR", "database error", <<SetTimeout>>, "closed")
       ELSE IF fail = "execute"
       THEN Stopped("SQL_ERROR", "database error", <<SetTimeout, sql_query>>, "closed")
       ELSE IF fail = "other"
       THEN Stopped("ERROR", "error", <<SetTimeout, sql_query>>, "closed")
       ELSE RunDone(add_memory(mem, rounds, user, "SQL", "result"),
                    Some(raw), Some(sql_query), <<SetTimeout, sql_query>>,
                    "closed", "done")

\* the Run button with a user query that is not blank
run_button(mem, rounds, user, reply, fail) ==
    LET raw == safe_text(reply)
    IN IF raw = None
       THEN RunDone(mem, None, None, <<>>, "none", "stop")
       ELSE IF StartsWith(Get(raw), <<MarkSql>>)
       THEN run_sql(mem, rounds, user, Get(raw), fail)
       ELSE IF StartsWith(Get(raw), <<MarkChat>>)
       THEN RunDone(add_memory(mem, rounds, user, "CHAT", "reply"),
                    raw, None, <<>>, "none", "done")
       ELSE RunDone(mem, raw, None, <<>>, "none", "unrecognized")

Replies == {None} \cup {Some(text) : text \in SeqUpTo(RawAlphabet, MaxRawLen)}

\* the failure points that matter to a reply: those of the SQL mode
SqlFailsFor(reply) ==
    IF reply # None /\ StartsWith(Strip(Get(reply)), <<MarkSql>>)
    THEN SqlFailPoints ELSE {"none"}

\* the agent is not used by these specifications
IdleCore ==
    /\ db = MkCatalog(<<TableAb>>, FALSE)
    /\ now = 0
    /\ cache_duration = MaxTTL
    /\ schema_cache = None /\ cache_timestamp = None /\ full_schema_text = None
    /\ last = Record("init", FALSE, "absent", FALSE,
                     Done(Agent(None, None, None), "return", "none", None, 0, 0, "none", 0))
    /\ window = None

Run(reply, fail) ==
    /\ LET r == run_button(memory, max_rounds, "query", reply, fail)
       IN memory' = r.memory /\ run' = r.run
    /\ UNCHANGED <<max_rounds, log, coreVars, heapVars, raceVars>>

InitSql ==
    /\ IdleCore /\ IdleHeap /\ IdleRace
    /\ memory = <<>>
    /\ max_rounds \in 1..MaxRounds
    /\ log = <<>>
    /\ run = [raw |-> None, sql |-> None, executed |-> <<>>, conn |-> "none",
              outcome |-> "none"]

NextSql == \E reply \in Replies : \E fail \in SqlFailsFor(reply) : Run(reply, fail)

SpecSql == InitSql /\ [][NextSql]_vars

\* add_memory alone, for every configured number of rounds; the user text
\* of a call is its number, so that the entries can be told apart
Modes == {"SQL", "SQL_ERROR", "ERROR", "CHAT"}

AddMemory(mode) ==
    /\ Len(log) < MaxAdds
    /\ memory' = add_memory(memory, max_rounds, Len(log) + 1, mode, "content")
    /\ log' = Append(log, MemoryEntry(Len(log) + 1, mode, "content"))
    /\ UNCHANGED <<max_rounds, run, coreVars, heapVars, raceVars>>

InitMemory ==
    /\ IdleCore /\ IdleHeap /\ IdleRace
    /\ memory = <<>>
    /\ max_rounds \in 0..MaxRounds
    /\ log = <<>>
    /\ run = [raw |-> None, sql |-> None, executed |-> <<>>, conn |-> "none",
              outcome |-> "none"]

NextMemory == \E mode \in Modes : AddMemory(mode)

SpecMemory == InitMemory /\ [][NextMemory]_vars

-----------------------------------------------------------------------------
(* Two sessions of the page share the agent of get_schema_agent().  Each   *)
(* calls get_schema_for_llm once; the statements of the two calls          *)
(* interleave, the three assignments that install a snapshot included.     *)
(* No call fails here.                                                     *)

Goto(s, label) == pc' = [pc EXCEPT ![s] = label]

\* the two cache checks on entry: the one of get_schema_for_llm and the
\* one of extract_full_schema
Enter(s, force_refresh) ==
    /\ pc[s] = "idle"
    /\ IF /\ ~force_refresh /\ TextTruthy(full_schema_text)
          /\ _is_cache_valid(Self, now, cache_duration)
       THEN /\ returned' = [returned EXCEPT ![s] = Some(full_schema_text)]
            /\ Goto(s, "done")
       ELSE /\ returned' = returned
            /\ Goto(s, IF UseCache(Self, force_refresh, now, cache_duration)
                       THEN "return" ELSE "read")
    /\ call' = [call EXCEPT ![s] = "get_schema_for_llm"]
    /\ UNCHANGED <<local, extracted, coreVars, heapVars, chatVars>>

\* the catalog queries, into the local schema_info
ReadCatalog(s) ==
    /\ pc[s] = "read"
    /\ local' = [local EXCEPT ![s] = Some(FullSchemaInfo(db, now))]
    /\ extracted' = extracted \cup {FullSchemaInfo(db, now)}
    /\ Goto(s, "cache")
    /\ UNCHANGED <<call, returned, coreVars, heapVars, chatVars>>

\* self.schema_cache = schema_info
SetCache(s) ==
    /\ pc[s] = "cache"
    /\ schema_cache' = local[s]
    /\ Goto(s, "stamp")
    /\ UNCHANGED <<db, now, cache_duration, cache_timestamp, full_schema_text,
                   last, window, call, local, returned, extracted, heapVars,
                   chatVars>>

\* self.cache_timestamp = datetime.now()
SetStamp(s) ==
    /\ pc[s] = "stamp"
    /\ cache_timestamp' = Some(now)
    /\ Goto(s, "text")
    /\ UNCHANGED <<db, now, cache_duration, schema_cache, full_schema_text,
                   last, window, call, local, returned, extracted, heapVars,
                   chatVars>>

\* self.full_schema_text = self._generate_llm_schema_text(schema_info)
SetText(s) ==
    /\ pc[s] = "text"
    /\ full_schema_text' = Some(_generate_llm_schema_text(Get(local[s])))
    /\ Goto(s, "return")
    /\ UNCHANGED <<db, now, cache_duration, schema_cache, cache_timestamp,
                   last, window, call, local, returned, extracted, heapVars,
                   chatVars>>

\* `return self.full_schema_text` of get_schema_for_llm
ReturnText(s) ==
    /\ pc[s] = "return"
    /\ call[s] = "get_schema_for_llm"
    /\ returned' = [returned EXCEPT ![s] = Some(full_schema_text)]
    /\ Goto(s, "done")
    /\ UNCHANGED <<call, local, extracted, coreVars, heapVars, chatVars>>

InitRace ==
    /\ IdleHeap /\ IdleChat /\ IdleRace
    /\ db \in DbVersions
    /\ now = 0
    /\ cache_duration = MaxTTL
    /\ schema_cache = None /\ cache_timestamp = None /\ full_schema_text = None
    /\ last = Record("init", FALSE, "absent", FALSE,
                     Done(Agent(None, None, None), "return", "none", None, 0, 0, "none", 0))
    /\ window = None

NextRace ==
    \/ \E s \in Sessions, force \in BOOLEAN : Enter(s, force)
    \/ \E s \in Sessions : ReadCatalog(s)
    \/ \E s \in Sessions : SetCache(s)
    \/ \E s \in Sessions : SetStamp(s)
    \/ \E s \in Sessions : SetText(s)
    \/ \E s \in Sessions : ReturnText(s)
    \/ Tick
    \/ AlterDatabase

SpecRace == InitRace /\ [][NextRace]_vars

-----------------------------------------------------------------------------
(* One session reads through the shared agent while another presses the    *)
(* refresh button, whose clear_cache is three assignments.  The reading    *)
(* session makes one call of one of the four read methods; the statements  *)
(* of the two calls interleave.                                            *)

Reader == 1
Clearer == 2

\* the read methods that start with `if not self.schema_cache`
EnsuringOps == {"get_relevant_tables", "get_partial_schema", "save_schema_to_file"}

\* `if not self.schema_cache: self.extract_full_schema()`: the presence
\* check, and the cache check of extract_full_schema when it is called
EnterRead(s, op) ==
    /\ pc[s] = "idle"
    /\ call' = [call EXCEPT ![s] = op]
    /\ Goto(s, IF schema_cache # None \/ UseCache(Self, FALSE, now, cache_duration)
               THEN "return" ELSE "read")
    /\ UNCHANGED <<local, returned, extracted, coreVars, heapVars, chatVars>>

\* the first read of self.schema_cache after the presence check or the
\* extraction: the value found is recorded, None when it is absent
UseSnapshot(s) ==
    /\ pc[s] = "return"
    /\ call[s] \in EnsuringOps
    /\ returned' = [returned EXCEPT ![s] = Some(schema_cache)]
    /\ Goto(s, "done")
    /\ UNCHANGED <<call, local, extracted, coreVars, heapVars, chatVars>>

\* self.schema_cache = None
ClearSnapshot(s) ==
    /\ pc[s] = "idle"
    /\ call' = [call EXCEPT ![s] = "clear_cache"]
    /\ schema_cache' = None
    /\ Goto(s, "clear_stamp")
    /\ UNCHANGED <<db, now, cache_duration, cache_timestamp, full_schema_text,
                   last, window, local, returned, extracted, heapVars, chatVars>>

\* self.cache_timestamp = None
ClearStamp(s) ==
    /\ pc[s] = "clear_stamp"
    /\ cache_timestamp' = None
    /\ Goto(s, "clear_text")
    /\ UNCHANGED <<db, now, cache_duration, schema_cache, full_schema_text,
                   last, window, call, local, returned, extracted, heapVars,
                   chatVars>>

\* self.full_schema_text = None
ClearText(s) ==
    /\ pc[s] = "clear_text"
    /\ full_schema_text' = None
    /\ Goto(s, "done")
    /\ UNCHANGED <<db, now, cache_duration, schema_cache, cache_timestamp,
                   last, window, call, local, returned, extracted, heapVars,
                   chatVars>>

\* a shared agent that is new, or that holds the snapshot of a complete
\* extraction
InitClear ==
    /\ IdleHeap /\ IdleChat /\ IdleRace
    /\ db \in DbVersions
    /\ now = 0
    /\ cache_duration = MaxTTL
    /\ last = Record("init", FALSE, "absent", FALSE,
                     Done(Agent(None, None, None), "return", "none", None, 0, 0, "none", 0))
    /\ window = None
    /\ \E installed \in BOOLEAN :
          LET self == IF installed
                      THEN extract_full_schema(Agent(None, None, None), FALSE, db,
                                               now, cache_duration, NoFail).self
                      ELSE Agent(None, None, None)
          IN /\ schema_cache = self.schema_cache
             /\ cache_timestamp = self.cache_timestamp
             /\ full_schema_text = self.full_schema_text

NextClear ==
    \/ \E force \in BOOLEAN : Enter(Reader, force)
    \/ \E op \in EnsuringOps : EnterRead(Reader, op)
    \/ ReadCatalog(Reader)
    \/ SetCache(Reader)
    \/ SetStamp(Reader)
    \/ SetText(Reader)
    \/ ReturnText(Reader)
    \/ UseSnapshot(Reader)
    \/ ClearSnapshot(Clearer)
    \/ ClearStamp(Clearer)
    \/ ClearText(Clearer)
    \/ Tick
    \/ AlterDatabase

SpecClear == InitClear /\ [][NextClear]_vars

-----------------------------------------------------------------------------
(* Properties.                                                             *)

\* a step that is a call of the agent: the environment changes the clock or
\* the catalog, a call changes neither
Call(op) == now' = now /\ db' = db /\ last'.op = op

ExtractingOps ==
    {"extract_full_schema", "get_schema_for_llm", "get_relevant_tables",
     "get_partial_schema", "save_schema_to_file"}

CallOfOneOf(ops) == now' = now /\ db' = db /\ last'.op \in ops

\* the rendering of the catalog as it is now
CatalogText == _generate_llm_schema_text(FullSchemaInfo(db, now))

\* C1: an extraction that fails because the connection cannot be opened or
\* because a catalog query raises leaves schema_cache, cache_timestamp and
\* full_schema_text as they were, however many tables were read before.
C1_FailedExtractionKeepsCache ==
    [][ ( /\ CallOfOneOf(ExtractingOps)
          /\ last'.outcome = "raise"
          /\ last'.error \in {"connect", "query"} )
        => UNCHANGED cacheFields ]_vars

\* a query of the second table failed after the first table was read, and
\* the snapshot of an earlier extraction is still installed
C1_Witness ==
    /\ last.op \in {"extract_full_schema", "get_schema_for_llm"}
    /\ last.error = "query"
    /\ last.tables_read >= 1
    /\ schema_cache # None
    /\ full_schema_text # None

\* C2: every read path re-extracts when the installed snapshot has expired,
\* so a call that returns used a snapshot extracted during the call.
C2_ExpiredSnapshotIsRefreshed ==
    ( /\ last.op \in ExtractingOps
      /\ last.before = "expired"
      /\ last.outcome = "return" )
    => last.connects = 1

\* C3: with a valid cache and force_refresh false, extract_full_schema
\* returns the installed snapshot, opens no connection, issues no query and
\* changes none of the three fields.
C3_ValidCacheIsServed ==
    [][ ( /\ Call("extract_full_schema")
          /\ last'.arg = FALSE
          /\ CacheStatus = "valid" )
        => /\ last'.outcome = "return"
           /\ last'.ret = Some(Get(schema_cache))
           /\ last'.connects = 0
           /\ last'.queries = 0
           /\ UNCHANGED cacheFields ]_vars

C3_Witness ==
    /\ last.op = "extract_full_schema"
    /\ last.arg = FALSE
    /\ last.before = "valid"
    /\ last.outcome = "return"
    /\ last.ret = Some(Get(schema_cache))
    /\ Get(schema_cache) # FullSchemaInfo(db, now)

\* C4: a forced refresh always opens a connection and reads the catalog,
\* also with a valid cache, and when it returns the three fields and the
\* returned value are those of the catalog as it is during the call.
C4_ForcedRefreshReadsCatalog ==
    [][ ( /\ CallOfOneOf({"extract_full_schema", "get_schema_for_llm"})
          /\ last'.arg = TRUE )
        => /\ last'.error # "connect" => last'.connects = 1
           /\ last'.error \notin {"connect", "cursor"} => last'.queries >= 1
           /\ last'.outcome = "return" =>
                /\ last'.queries = NumQueries(db)
                /\ schema_cache' = Some(FullSchemaInfo(db, now))
                /\ cache_timestamp' = Some(now)
                /\ full_schema_text' = Some(CatalogText)
                /\ last'.op = "get_schema_for_llm" =>
                       last'.ret = Some(Some(CatalogText))
                /\ last'.op = "extract_full_schema" =>
                       last'.ret = Some(FullSchemaInfo(db, now)) ]_vars

C4_Witness ==
    /\ last.op = "get_schema_for_llm"
    /\ last.arg = TRUE
    /\ last.before = "valid"
    /\ last.outcome = "return"
    /\ last.connects = 1
    /\ full_schema_text = Some(CatalogText)

\* the cache was installed during the last call and no time has passed
JustExtracted ==
    /\ last.op \in ExtractingOps
    /\ last.connects = 1
    /\ last.outcome = "return"
    /\ cache_timestamp = Some(now)

\* C5 as stated: for every configured cache duration the cache is valid
\* right after a successful extraction, invalid once the time since the
\* extraction reaches the duration, and invalid without snapshot or timestamp.
C5_ValidityFollowsTTL ==
    /\ JustExtracted => _is_cache_valid(Self, now, cache_duration)
    /\ ( /\ schema_cache # None /\ cache_timestamp # None
         /\ now - Get(cache_timestamp) >= cache_duration )
       => ~_is_cache_valid(Self, now, cache_duration)
    /\ (schema_cache = None \/ cache_timestamp = None)
       => ~_is_cache_valid(Self, now, cache_duration)

\* C5 amended: the same, the first part for a cache duration of at least one
\* tick only.
C5_ValidityFollowsPositiveTTL ==
    /\ (cache_duration >= 1 /\ JustExtracted)
       => _is_cache_valid(Self, now, cache_duration)
    /\ ( /\ schema_cache # None /\ cache_timestamp # None
         /\ now - Get(cache_timestamp) >= cache_duration )
       => ~_is_cache_valid(Self, now, cache_duration)
    /\ (schema_cache = None \/ cache_timestamp = None)
       => ~_is_cache_valid(Self, now, cache_duration)

\* the time since the extraction is exactly the positive cache duration
C5_Witness ==
    /\ cache_duration >= 1
    /\ schema_cache # None
    /\ cache_timestamp # None
    /\ now - Get(cache_timestamp) = cache_duration
    /\ ~_is_cache_valid(Self, now, cache_duration)

\* C6: a call that opened a connection has closed it when it returns or
\* raises.
C6_ConnectionClosedOnExit == last.conn # "open"

\* C7: clear_cache sets the three fields to None, and a get_schema_for_llm
\* call that follows it and returns has opened one connection, read the
\* whole catalog once and returns the rendering of the catalog.
C7_ClearThenOneExtraction ==
    [][ /\ Call("clear_cache") =>
              /\ schema_cache' = None
              /\ cache_timestamp' = None
              /\ full_schema_text' = None
        /\ ( /\ last.op = "clear_cache"
             /\ Call("get_schema_for_llm")
             /\ last'.outcome = "return" )
           => /\ last'.connects = 1
              /\ last'.queries = NumQueries(db)
              /\ last'.ret = Some(Some(CatalogText)) ]_vars

C7_Witness ==
    /\ last.op = "get_schema_for_llm"
    /\ last.arg = FALSE
    /\ last.after_clear
    /\ last.outcome = "return"
    /\ last.connects = 1
    /\ now >= 1

\* a get_schema_for_llm(False) call made now repeats a call of the window of
\* the last successful extraction
RepeatsInWindow ==
    /\ window # None
    /\ Get(window).first # None
    /\ now - Get(window).since < cache_duration

\* C8: within the TTL window of a successful extraction, without clear_cache
\* or forced refresh in between, get_schema_for_llm(False) returns the text
\* the first call returned, extracts nothing and renders nothing, whatever
\* the catalog has become.
C8_RepeatedCallsServeFirstText ==
    [][ ( /\ Call("get_schema_for_llm")
          /\ last'.arg = FALSE
          /\ RepeatsInWindow )
        => /\ last'.outcome = "return"
           /\ last'.ret = Some(Get(Get(window).first))
           /\ last'.connects = 0
           /\ last'.queries = 0
           /\ UNCHANGED cacheFields ]_vars

\* a repeated call returned the first text although the catalog has changed
C8_Witness ==
    /\ last.op = "get_schema_for_llm"
    /\ last.arg = FALSE
    /\ last.before = "valid"
    /\ last.connects = 0
    /\ window # None
    /\ Get(window).first # None
    /\ last.ret = Some(Get(Get(window).first))
    /\ Get(schema_cache).tables # FullSchemaInfo(db, now).tables

\* the identifier occurs in the query, letter case ignored
OccursIn(name, query) ==
    \E i \in 0..(Len(query) - Len(name)) :
        \A j \in 1..Len(name) : LowerChar(query[i + j]) = LowerChar(name[j])

\* the names of the snapshot's tables that the query names, by the table's
\* name or by one of its columns
NamedBy(schema, query) ==
    { schema.tables[i].name : i \in
        { i \in 1..Len(schema.tables) :
            \/ OccursIn(schema.tables[i].name, query)
            \/ \E j \in 1..Len(schema.tables[i].info.columns) :
                   OccursIn(schema.tables[i].info.columns[j].name, query) } }

\* C9: get_relevant_tables returns exactly the tables named by the query,
\* and all tables of the snapshot when the query names none.
C9_RelevantTables ==
    last.op = "get_relevant_tables" =>
        LET schema == Get(schema_cache)
            named == NamedBy(schema, last.arg)
        IN /\ last.outcome = "return"
           /\ Range(Get(last.ret)) =
                IF named # {} THEN named ELSE Range(DictKeys(schema.tables))

\* the query "cB" names table Bc by its column cb alone, of three tables
C9_Witness ==
    /\ last.op = "get_relevant_tables"
    /\ last.arg = <<"c", "B">>
    /\ Len(Get(schema_cache).tables) = 3
    /\ Get(last.ret) = << TableBc.table_name >>

\* the snapshot restricted to a set of names: its tables with a name in the
\* set, its edges with an end in the set
RestrictedTo(schema, S) ==
    [tables |-> SelectSeq(schema.tables, LAMBDA e : e.name \in S),
     foreign_keys |->
        SelectSeq(schema.foreign_keys,
                  LAMBDA fk : ~(fk.source_table \notin S /\ fk.target_table \notin S)),
     extracted_at |-> schema.extracted_at]

\* C10: get_partial_schema(S) is the rendering of the snapshot's tables with
\* a name in S and of the snapshot's edges with an end in S, in the
\* snapshot's edge order; names the snapshot does not have are dropped.
C10_PartialSchema ==
    last.op = "get_partial_schema" =>
        /\ last.outcome = "return"
        /\ Get(last.ret) =
             _generate_llm_schema_text(
                 RestrictedTo(Get(schema_cache), Range(last.arg)))

\* the list has an unknown name and table Ab; of the snapshot's four edges
\* two touch Ab and two have both ends outside the list
C10_Witness ==
    /\ last.op = "get_partial_schema"
    /\ last.arg = << <<"c">>, TableAb.table_name >>
    /\ Len(Get(schema_cache).foreign_keys) = 4
    /\ Len(RestrictedTo(Get(schema_cache), Range(last.arg)).foreign_keys) = 2
    /\ Len(RestrictedTo(Get(schema_cache), Range(last.arg)).tables) = 1

-----------------------------------------------------------------------------
(* Properties of the renderer, on the lines of a rendering.                *)

FkHeaderLine == "\n=== FOREIGN KEY RELATIONSHIPS ==="
MetadataLine == "\n=== METADATA ==="

\* the lines before the foreign-key section and the footer: the title and
\* the table blocks
TableSection(lines) ==
    LET marks == {i \in 1..Len(lines) : lines[i] \in {FkHeaderLine, MetadataLine}}
        first == CHOOSE i \in marks : \A j \in marks : i <= j
    IN SubSeq(lines, 1, first - 1)

\* the lines with the blocks removed whose header is in headers but not in
\* kept; a block runs from its header to the line before the next header
RECURSIVE WithoutBlocks(_, _, _, _)
WithoutBlocks(lines, headers, kept, keeping) ==
    IF lines = <<>> THEN <<>>
    ELSE LET line == Head(lines)
             keep == IF line \in headers THEN line \in kept ELSE keeping
         IN (IF keep THEN <<line>> ELSE <<>>)
            \o WithoutBlocks(Tail(lines), headers, kept, keep)

HeaderLinesOf(tables) == {TableHeaderLine(tables[i]) : i \in 1..Len(tables)}

\* C11: for every list of names, in any order, the table section of
\* get_partial_schema is, line for line, the table section of the full
\* rendering without the blocks of the tables that are not named.
C11_PartialTableSection ==
    last.op = "get_partial_schema" =>
        LET schema == Get(schema_cache)
            named == SelectSeq(schema.tables, LAMBDA e : e.name \in Range(last.arg))
            full == SchemaLines(schema)
            part == SchemaLines(FilteredSchema(schema, last.arg))
        IN /\ Get(full_schema_text) = Join(full, "\n")
           /\ Get(last.ret) = Join(part, "\n")
           /\ TableSection(part) =
                WithoutBlocks(TableSection(full), HeaderLinesOf(schema.tables),
                              HeaderLinesOf(named), TRUE)

\* the names ba, Ab are given against the alphabetical order, and the
\* snapshot stores its three tables in the order Bc, ba, Ab
C11_Witness ==
    /\ last.op = "get_partial_schema"
    /\ last.arg = << TableBa.table_name, TableAb.table_name >>
    /\ DictKeys(Get(schema_cache).tables) =
         << TableBc.table_name, TableBa.table_name, TableAb.table_name >>
    /\ Len(TableSection(SchemaLines(Get(schema_cache)))) = 9

\* the position of a line in a sequence of lines that has it once
PositionOf(line, lines) == CHOOSE i \in 1..Len(lines) : lines[i] = line

Occurrences(line, lines) == Cardinality({i \in 1..Len(lines) : lines[i] = line})

RECURSIVE SumOver(_, _)
SumOver(f, n) == IF n = 0 THEN 0 ELSE f[n] + SumOver(f, n - 1)

\* the lines are the rendering of the snapshot as the renderer is specified
RenderedAsSpecified(lines, schema) ==
    LET tables == schema.tables
        fks == schema.foreign_keys
        n == Len(lines)
    IN /\ lines[1] = "=== DATABASE SCHEMA ===\n"
       \* one block per table: its header, then its columns in stored order
       /\ \A i \in 1..Len(tables) :
            LET header == TableHeaderLine(tables[i])
                cols == tables[i].info.columns
            IN /\ Occurrences(header, lines) = 1
               /\ \A j \in 1..Len(cols) :
                    lines[PositionOf(header, lines) + j] =
                        ColumnLine(cols[j], tables[i].info.primary_keys)
       \* the blocks in increasing order of table name
       /\ \A i, j \in 1..Len(tables) :
            StrLess(tables[i].name, tables[j].name) =>
                PositionOf(TableHeaderLine(tables[i]), lines)
                    < PositionOf(TableHeaderLine(tables[j]), lines)
       \* the foreign-key section iff there are edges, one line per edge
       /\ Occurrences(FkHeaderLine, lines) = IF fks # <<>> THEN 1 ELSE 0
       /\ fks # <<>> =>
            /\ PositionOf(FkHeaderLine, lines) + Len(fks) = n - 3
            /\ \A i \in 1..Len(fks) :
                 lines[PositionOf(FkHeaderLine, lines) + i] = FkLine(fks[i])
       \* the footer
       /\ lines[n - 2] = MetadataLine
       /\ lines[n - 1] = "Total Tables: " \o ToString(Len(tables))
       /\ lines[n] = "Extracted At: " \o schema.extracted_at
       \* and nothing else
       /\ n = 1 + SumOver([i \in 1..Len(tables) |-> 1 + Len(tables[i].info.columns)],
                          Len(tables))
              + (IF fks # <<>> THEN 1 + Len(fks) ELSE 0) + 3

\* C12: the text installed by an extraction and the text get_partial_schema
\* returns are the rendering of their snapshot as specified (tables in
\* increasing order of name whatever the storage order, columns in stored
\* order, the foreign-key section iff there are edges, the table count in the
\* footer), and rendering for get_partial_schema changes no field.
C12_RenderingIsSpecified ==
    /\ [](LET schema == Get(schema_cache)
          IN /\ Get(full_schema_text) = Join(SchemaLines(schema), "\n")
             /\ RenderedAsSpecified(SchemaLines(schema), schema)
             /\ last.op = "get_partial_schema" =>
                  LET part == FilteredSchema(schema, last.arg)
                  IN /\ Get(last.ret) = Join(SchemaLines(part), "\n")
                     /\ RenderedAsSpecified(SchemaLines(part), part))
    /\ [][Call("get_partial_schema") => UNCHANGED cacheFields]_vars

\* three tables stored against the order of their names, and edges
C12_Witness ==
    /\ DictKeys(Get(schema_cache).tables) =
         << TableBa.table_name, TableBc.table_name, TableAb.table_name >>
    /\ Len(Get(schema_cache).foreign_keys) = 4
    /\ last.op = "get_partial_schema"
    /\ last.arg = << TableBc.table_name >>
    /\ FilteredSchema(Get(schema_cache), last.arg).foreign_keys # <<>>

\* the names of the tables of the cached schema
KnownTableNames == Range(DictKeys(Get(schema_cache).tables))

\* C13: get_table_sample_data sends its SELECT only for a table_name that is
\* the name of a table of the cached schema.
C13_SampleOnlyKnownTables ==
    ( /\ last.op = "get_table_sample_data"
      /\ last.arg \notin KnownTableNames )
    => last.queries = 0

\* the keys of a JSON object, in the order of the document
KeysOf(obj) == [i \in 1..Len(obj.members) |-> obj.members[i].k]

\* C14: save_schema_to_file runs an extraction first iff no snapshot is
\* installed; the document it writes has the keys tables, foreign_keys and
\* extracted_at and loads back to the installed snapshot; with a snapshot
\* installed the call changes none of the three fields.
C14_SaveWritesSnapshot ==
    [][ Call("save_schema_to_file") =>
        /\ schema_cache # None =>
             /\ last'.outcome = "return"
             /\ last'.connects = 0 /\ last'.queries = 0
             /\ UNCHANGED cacheFields
        /\ (schema_cache = None /\ last'.outcome = "return") =>
             /\ last'.connects = 1 /\ last'.queries = NumQueries(db)
             /\ schema_cache' = Some(FullSchemaInfo(db, now))
        /\ last'.outcome = "return" =>
             /\ KeysOf(Get(last'.ret)) = <<"tables", "foreign_keys", "extracted_at">>
             /\ json_load(Get(last'.ret)) = Get(schema_cache') ]_vars

\* the call found no snapshot, extracted one with two tables and an edge,
\* and wrote it
C14_Witness ==
    /\ last.op = "save_schema_to_file"
    /\ last.before = "absent"
    /\ last.outcome = "return"
    /\ last.connects = 1
    /\ Len(Field(Get(last.ret), "tables").members) = 2
    /\ Len(Field(Get(last.ret), "foreign_keys").items) >= 1

\* C16: an extraction whose catalog read succeeds and whose rendering raises
\* leaves schema_cache, cache_timestamp and full_schema_text as they were.
C16_RenderFailureKeepsCache ==
    [][ ( /\ CallOfOneOf(ExtractingOps)
          /\ last'.outcome = "raise"
          /\ last'.error = "render" )
        => UNCHANGED cacheFields ]_vars

\* the three fields are all absent, or all present with the text the
\* rendering of the snapshot
Coherent ==
    \/ schema_cache = None /\ cache_timestamp = None /\ full_schema_text = None
    \/ /\ schema_cache # None /\ cache_timestamp # None /\ full_schema_text # None
       /\ Get(full_schema_text) = _generate_llm_schema_text(Get(schema_cache))

\* C19: after every sequence of calls and failures the three fields are
\* coherent, and a get_schema_for_llm that returns does not return None.
C19_FieldsCoherent ==
    /\ Coherent
    /\ ( last.op = "get_schema_for_llm" /\ last.outcome = "return" )
       => Get(last.ret) # None

\* C15: a snapshot dict is never changed once it is installed: every dict
\* keeps its contents in every step, so the dict a caller was handed does
\* too; an extraction that installs installs a dict that did not exist
\* before; and schema_cache is always the contents of the dict it refers to.
C15_SnapshotsAreImmutable ==
    /\ [](schema_cache = IF cache_ref = None THEN None
                         ELSE Some(heap[Get(cache_ref)]))
    /\ [][ /\ Len(heap') >= Len(heap)
           /\ \A i \in 1..Len(heap) : heap'[i] = heap[i]
           /\ ( /\ CallOfOneOf(ExtractingOps)
                /\ last'.connects = 1
                /\ last'.error \in {"none", "render"} )
              => /\ cache_ref' # None
                 /\ Get(cache_ref') \notin 1..Len(heap)
                 /\ heap'[Get(cache_ref')] = FullSchemaInfo(db, now) ]_vars

\* a caller holds the snapshot of an earlier extraction while a refresh has
\* installed another dict with other contents
C15_Witness ==
    /\ held # None /\ cache_ref # None
    /\ Get(held) # Get(cache_ref)
    /\ heap[Get(held)] # heap[Get(cache_ref)]
    /\ last.op = "get_schema_for_llm"
    /\ last.outcome = "return"

\* the first word of the text is SELECT in any case: only blanks before it
FirstWordIsSelect(text) ==
    \E i \in 1..Len(text) :
        /\ text[i] \in {"select", "SELECT"}
        /\ \A j \in 1..(i - 1) : text[j] = " "

C18_MemoryKeepsLastRounds ==
    LET kept == IF Len(log) < max_rounds THEN Len(log) ELSE max_rounds
    IN /\ Len(memory) <= max_rounds
       /\ memory = SubSeq(log, Len(log) - kept + 1, Len(log))

\* every session got the rendering of the snapshot of a complete extraction
ReturnedACompleteRendering ==
    \A s \in Sessions :
        \E x \in extracted :
            Get(returned[s]) = Some(_generate_llm_schema_text(x))

\* C20: when the get_schema_for_llm calls of both sessions have completed,
\* in any interleaving, full_schema_text is the rendering of the installed
\* schema_cache, and each call returned the rendering of the snapshot of a
\* complete extraction.
C20_ConcurrentExtractionsCoherent ==
    (\A s \in Sessions : pc[s] = "done") =>
        /\ full_schema_text = Some(_generate_llm_schema_text(Get(schema_cache)))
        /\ ReturnedACompleteRendering

\* C21: a read of one session that a clear_cache of another session
\* interleaves with still completes on a snapshot: get_schema_for_llm
\* returns a text, not None, and the other read methods find schema_cache
\* present when they read it after their presence check or extraction.
C21_ReadCompletesOnSnapshot ==
    pc[Reader] = "done" => Get(returned[Reader]) # None

\* the place of a table name among the keys of the snapshot's tables
PlaceOf(name, schema) ==
    CHOOSE i \in 1..Len(schema.tables) : schema.tables[i].name = name

\* C22: for every query and snapshot, get_relevant_tables returns names of
\* tables of the snapshot only, each at most once, in the order of the
\* snapshot, and returns the empty list only if the snapshot has no tables.
C22_RelevantTablesShape ==
    last.op = "get_relevant_tables" =>
        LET schema == Get(schema_cache)
            ret == Get(last.ret)
        IN /\ \A i \in 1..Len(ret) : ret[i] \in KnownTableNames
           /\ \A i, j \in 1..Len(ret) : i # j => ret[i] # ret[j]
           /\ \A i, j \in 1..Len(ret) :
                i < j => PlaceOf(ret[i], schema) < PlaceOf(ret[j], schema)
           /\ ret = <<>> => schema.tables = <<>>

\* the query "aBc" names table Ab by its name and by both of its columns,
\* and the two other tables; the snapshot stores them against their order
C22_Witness ==
    /\ last.op = "get_relevant_tables"
    /\ last.arg = <<"a", "B", "c">>
    /\ Get(last.ret) = << TableBa.table_name, TableBc.table_name, TableAb.table_name >>
    /\ LET e == Get(schema_cache).tables[PlaceOf(TableAb.table_name, Get(schema_cache))]
       IN /\ OccursIn(e.name, last.arg)
          /\ Len(e.info.columns) > 1
          /\ \A j \in 1..Len(e.info.columns) :
                OccursIn(e.info.columns[j].name, last.arg)

====
